---- MODULE Spec2Model ----
(***************************************************************************)
(* Model of utils/runner.py: the Runner class that drives one evaluation   *)
(* run (construction, then run()).  Every collaborator call of run() is a  *)
(* step of its own; a call either returns or raises, and what it returns   *)
(* is drawn from a small set.  What is raised is an Exception or a         *)
(* BaseException that is no Exception (SystemExit, KeyboardInterrupt): the *)
(* three handlers of run() are "except Exception" and catch the first      *)
(* only.  The logger is a collaborator like the others: each of its calls, *)
(* and the evaluation of the message handed to it, may raise, also inside  *)
(* a handler.  The records it took are kept in error_log, report_lines and *)
(* reports.                                                                *)
(***************************************************************************)
EXTENDS Integers, Sequences, FiniteSets, TLC

MaxItems == 2

NoValue == "unset"

PromptTypes == {"diy", "sot", "cot"}
Methods == {"sot", "diy", "cot"}
DatasetTypes == {"aqua", "gsm8k"}
ItemKeySets == {{"problem", "solution"}, {"problem", "options", "solution"}}
Answers == {"A", "B"}
Steps == {"a", "b", "c", "d", "e", "f", "h"}
ExceptionClasses == {"Exception", "BaseException"}

RECURSIVE SeqsUpTo(_, _)
SeqsUpTo(S, n) ==
    IF n = 0 THEN {<<>>}
    ELSE LET shorter == SeqsUpTo(S, n - 1)
         IN shorter \cup {Append(s, x) : s \in {t \in shorter : Len(t) = n - 1}, x \in S}

Datasets == SeqsUpTo(ItemKeySets, MaxItems)

VARIABLES
    args_prompt_type,
    config,
    settings,
    pc,
    exc,
    method,
    dataset_type,
    temperature_applied,
    calls,
    prompt_template,
    dataset,
    total,
    correct,
    wrong_question_numbers,
    idx,
    input_dict,
    predicted_answer,
    true_answer,
    is_correct,
    raisedAt,
    verdict,
    rendered,
    invoked,
    error_log,
    report_lines,
    reports

vars == <<args_prompt_type, config, settings, pc, exc, method, dataset_type,
          temperature_applied, calls, prompt_template, dataset, total, correct,
          wrong_question_numbers, idx, input_dict, predicted_answer,
          true_answer, is_correct, raisedAt, verdict, rendered, invoked,
          error_log, report_lines, reports>>

env == <<args_prompt_type, config>>
locals == <<method, dataset_type>>
counters == <<total, correct, wrong_question_numbers>>
item_locals == <<input_dict, predicted_answer, true_answer, is_correct>>
history == <<raisedAt, verdict, rendered, invoked>>
sink == <<error_log, report_lines, reports>>

Init ==
    /\ args_prompt_type \in PromptTypes
    /\ config \in [RUNNER_DEFAULT_METHOD : Methods,
                   RUNNER_DEFAULT_DATASET_TYPE : DatasetTypes]
    /\ settings = NoValue
    /\ pc = "new"
    /\ exc = NoValue
    /\ method = NoValue
    /\ dataset_type = NoValue
    /\ temperature_applied = 0
    /\ calls = <<>>
    /\ prompt_template = NoValue
    /\ dataset = <<>>
    /\ total = 0
    /\ correct = 0
    /\ wrong_question_numbers = <<>>
    /\ idx = 0
    /\ input_dict = {}
    /\ predicted_answer = NoValue
    /\ true_answer = NoValue
    /\ is_correct = FALSE
    /\ raisedAt = <<>>
    /\ verdict = <<>>
    /\ rendered = <<>>
    /\ invoked = <<>>
    /\ error_log = <<>>
    /\ report_lines = 0
    /\ reports = <<>>

\* Lines 76, 130, 143: except Exception.
Catches(cls) == cls = "Exception"

\* Runner.__init__ with an else branch that falls back to the sot settings.
SelectSettingsDefaultSot(prompt_type) ==
    IF prompt_type = "diy" THEN "diy_settings" ELSE "sot_settings"

\* Runner.__init__: the settings field is bound only for 'diy' and 'sot'.
SelectSettings(prompt_type) ==
    IF prompt_type = "diy" THEN "diy_settings"
    ELSE IF prompt_type = "sot" THEN "sot_settings"
    ELSE NoValue

Construct ==
    /\ pc = "new"
    /\ settings' = SelectSettings(args_prompt_type)
    /\ pc' = "constructed"
    /\ UNCHANGED <<env, exc, locals, temperature_applied, calls, prompt_template,
                   dataset, counters, idx, item_locals, history, sink>>

\* run(), lines 51-56: the reads of self.settings stand before the try; on an
\* unset field the AttributeError leaves run().
ReadSettings ==
    /\ pc = "constructed"
    /\ IF settings = NoValue
       THEN /\ pc' = "raised"
            /\ exc' = "Exception"
            /\ UNCHANGED locals
       ELSE /\ pc' = "set_temperature"
            /\ method' = config.RUNNER_DEFAULT_METHOD
            /\ dataset_type' = config.RUNNER_DEFAULT_DATASET_TYPE
            /\ UNCHANGED exc
    /\ UNCHANGED <<env, settings, temperature_applied, calls, prompt_template,
                   dataset, counters, idx, item_locals, history, sink>>

\* Line 58: settings.set_temperature(temperature), the first call in the try.
SetTemperature ==
    /\ pc = "set_temperature"
    /\ \/ /\ calls' = Append(calls, [call |-> "set_temperature", outcome |-> "return"])
          /\ temperature_applied' = temperature_applied + 1
          /\ pc' = "initialize_llm"
          /\ UNCHANGED exc
       \/ \E cls \in ExceptionClasses :
            /\ calls' = Append(calls, [call |-> "set_temperature", outcome |-> "raise"])
            /\ UNCHANGED temperature_applied
            /\ exc' = cls
            /\ pc' = "top_handler"
    /\ UNCHANGED <<env, settings, locals, prompt_template, dataset, counters,
                   idx, item_locals, history, sink>>

\* Line 63: llm = initialize_llm().
InitializeLlm ==
    /\ pc = "initialize_llm"
    /\ \/ /\ calls' = Append(calls, [call |-> "initialize_llm", outcome |-> "return"])
          /\ pc' = "get_prompt_template"
          /\ UNCHANGED exc
       \/ \E cls \in ExceptionClasses :
            /\ calls' = Append(calls, [call |-> "initialize_llm", outcome |-> "raise"])
            /\ exc' = cls
            /\ pc' = "top_handler"
    /\ UNCHANGED <<env, settings, locals, temperature_applied, prompt_template,
                   dataset, counters, idx, item_locals, history, sink>>

\* Line 67: if prompt_template is None.
TemplateIsNoneAlwaysFalse(t) == FALSE

TemplateIsNone(t) == t = "None"

\* Lines 66-68: the factory returns a template or None, or raises; None ends
\* the run with a bare return.
GetPromptTemplate ==
    /\ pc = "get_prompt_template"
    /\ \/ \E result \in {"template", "None"} :
            /\ calls' = Append(calls, [call |-> "get_prompt_template", outcome |-> result])
            /\ prompt_template' = result
            /\ pc' = IF TemplateIsNone(result) THEN "returned" ELSE "compose"
            /\ UNCHANGED exc
       \/ \E cls \in ExceptionClasses :
            /\ calls' = Append(calls, [call |-> "get_prompt_template", outcome |-> "raise"])
            /\ UNCHANGED prompt_template
            /\ exc' = cls
            /\ pc' = "top_handler"
    /\ UNCHANGED <<env, settings, locals, temperature_applied, dataset,
                   counters, idx, item_locals, history, sink>>

\* Line 69: chain = prompt_template | llm.
ComposeChain ==
    /\ pc = "compose"
    /\ \/ /\ pc' = "load_dataset"
          /\ UNCHANGED exc
       \/ \E cls \in ExceptionClasses :
            /\ exc' = cls
            /\ pc' = "top_handler"
    /\ UNCHANGED <<env, settings, locals, temperature_applied, calls,
                   prompt_template, dataset, counters, idx, item_locals,
                   history, sink>>

\* Lines 71-75, the try around the load: the message of line 73 raises before
\* the call; the loader raises; the loader returns and line 75 (len(dataset),
\* the message) raises; or the dataset is loaded.
LoadDataset ==
    /\ pc = "load_dataset"
    /\ \/ \E cls \in ExceptionClasses :
            /\ exc' = cls
            /\ pc' = "load_handler"
            /\ UNCHANGED <<calls, dataset, raisedAt, verdict>>
       \/ \E cls \in ExceptionClasses :
            /\ calls' = Append(calls, [call |-> "load_dataset", outcome |-> "raise"])
            /\ exc' = cls
            /\ pc' = "load_handler"
            /\ UNCHANGED <<dataset, raisedAt, verdict>>
       \/ \E ds \in Datasets :
            /\ calls' = Append(calls, [call |-> "load_dataset", outcome |-> "return"])
            /\ dataset' = ds
            /\ raisedAt' = [i \in 1..Len(ds) |-> "none"]
            /\ verdict' = [i \in 1..Len(ds) |-> "none"]
            /\ \/ /\ pc' = "check_empty"
                  /\ UNCHANGED exc
               \/ \E cls \in ExceptionClasses :
                    /\ exc' = cls
                    /\ pc' = "load_handler"
    /\ UNCHANGED <<env, settings, locals, temperature_applied, prompt_template,
                   counters, idx, item_locals, rendered, invoked, sink>>

\* Lines 76-78: except Exception around the load: log the error, return.  An
\* exception the clause does not catch goes on to the outer try, and so does
\* one raised by line 77 itself (str(e), the logger).
LoadErrorHandler ==
    /\ pc = "load_handler"
    /\ IF Catches(exc)
       THEN \/ /\ error_log' = Append(error_log, [kind |-> "load", idx |-> 0])
               /\ exc' = NoValue
               /\ pc' = "returned"
            \/ \E cls \in ExceptionClasses :
                 /\ exc' = cls
                 /\ pc' = "top_handler"
                 /\ UNCHANGED error_log
       ELSE /\ pc' = "top_handler"
            /\ UNCHANGED <<exc, error_log>>
    /\ UNCHANGED <<env, settings, locals, temperature_applied, calls,
                   prompt_template, dataset, counters, idx, item_locals,
                   history, report_lines, reports>>

\* Line 84: if total == 0.
DatasetIsEmpty(n) == n = 0

\* Lines 80-86: the counters start; an empty dataset is an error record and a
\* return, or what the logging of line 85 raises.
CheckEmpty ==
    /\ pc = "check_empty"
    /\ total' = Len(dataset)
    /\ correct' = 0
    /\ wrong_question_numbers' = <<>>
    /\ IF DatasetIsEmpty(Len(dataset))
       THEN \/ /\ error_log' = Append(error_log, [kind |-> "empty", idx |-> 0])
               /\ pc' = "returned"
               /\ UNCHANGED exc
            \/ \E cls \in ExceptionClasses :
                 /\ exc' = cls
                 /\ pc' = "top_handler"
                 /\ UNCHANGED error_log
       ELSE /\ UNCHANGED <<error_log, exc>>
            /\ pc' = "loop"
    /\ UNCHANGED <<env, settings, locals, temperature_applied, calls,
                   prompt_template, dataset, idx, item_locals, history,
                   report_lines, reports>>

\* Line 88: for idx, item in enumerate(dataset, 1).
NextItem ==
    /\ pc = "loop"
    /\ IF idx < Len(dataset)
       THEN /\ idx' = idx + 1
            /\ pc' = "a"
       ELSE /\ UNCHANGED idx
            /\ pc' = "report"
    /\ UNCHANGED <<env, settings, exc, locals, temperature_applied, calls,
                   prompt_template, dataset, counters, item_locals, history, sink>>

\* Lines 90-100 with betti_number put into every record.
MethodKeysAlwaysBetti(m) == {"problem", "betti_number"}

\* Lines 90-100: the keys the method contributes to input_dict.
MethodKeys(m) ==
    IF m = "sot" THEN {"problem", "betti_number"} ELSE {"problem"}

\* Lines 102-103: the key the dataset type contributes.
DatasetTypeKeys(dt) ==
    IF dt = "aqua" THEN {"options"} ELSE {}

\* Lines 90-103: the keys of input_dict for a method and a dataset type.
InputDictKeys(m, dt) == MethodKeys(m) \cup DatasetTypeKeys(dt)

\* Lines 90-103: the ValueError of the else branch, or the KeyError of
\* item["problem"] or item["options"] on an item without the key.
BuildRaises(m, dt, item) ==
    \/ m \notin {"sot", "diy"}
    \/ "problem" \notin item
    \/ dt = "aqua" /\ "options" \notin item

\* Step (a), lines 90-103; what it raises is a ValueError or a KeyError.
BuildInputDict ==
    /\ pc = "a"
    /\ IF BuildRaises(method, dataset_type, dataset[idx])
       THEN /\ raisedAt' = [raisedAt EXCEPT ![idx] = "a"]
            /\ exc' = "Exception"
            /\ UNCHANGED input_dict
            /\ pc' = "item_handler"
       ELSE /\ input_dict' = InputDictKeys(method, dataset_type)
            /\ UNCHANGED <<raisedAt, exc>>
            /\ pc' = "b"
    /\ UNCHANGED <<env, settings, locals, temperature_applied, calls,
                   prompt_template, dataset, counters, idx, predicted_answer,
                   true_answer, is_correct, verdict, rendered, invoked, sink>>

\* Step (b), lines 106-107: prompt_template.format_messages(**input_dict).
FormatMessages ==
    /\ pc = "b"
    /\ rendered' = Append(rendered, [idx |-> idx, keys |-> input_dict])
    /\ \/ /\ pc' = "c"
          /\ UNCHANGED <<raisedAt, exc>>
       \/ \E cls \in ExceptionClasses :
            /\ pc' = "item_handler"
            /\ exc' = cls
            /\ raisedAt' = [raisedAt EXCEPT ![idx] = "b"]
    /\ UNCHANGED <<env, settings, locals, temperature_applied, calls,
                   prompt_template, dataset, counters, idx, item_locals,
                   verdict, invoked, sink>>

\* Step (c) with the temperature applied again before each model call.
InvokeReappliesTemperature ==
    /\ pc = "c"
    /\ invoked' = Append(invoked, [idx |-> idx, keys |-> input_dict])
    /\ temperature_applied' = temperature_applied + 1
    /\ \/ /\ pc' = "d"
          /\ UNCHANGED <<raisedAt, exc>>
       \/ \E cls \in ExceptionClasses :
            /\ pc' = "item_handler"
            /\ exc' = cls
            /\ raisedAt' = [raisedAt EXCEPT ![idx] = "c"]
    /\ UNCHANGED <<env, settings, locals, calls, prompt_template, dataset,
                   counters, idx, item_locals, verdict, rendered, sink>>

\* Step (c) with the model call made a second time for the same item.
InvokeTwice ==
    /\ pc = "c"
    /\ invoked' = invoked \o <<[idx |-> idx, keys |-> input_dict],
                                [idx |-> idx, keys |-> input_dict]>>
    /\ \/ /\ pc' = "d"
          /\ UNCHANGED <<raisedAt, exc>>
       \/ \E cls \in ExceptionClasses :
            /\ pc' = "item_handler"
            /\ exc' = cls
            /\ raisedAt' = [raisedAt EXCEPT ![idx] = "c"]
    /\ UNCHANGED <<env, settings, locals, temperature_applied, calls,
                   prompt_template, dataset, counters, idx, item_locals,
                   verdict, rendered, sink>>

\* Step (c), lines 110-114: chain.invoke(input_dict) and response.content.
Invoke ==
    /\ pc = "c"
    /\ invoked' = Append(invoked, [idx |-> idx, keys |-> input_dict])
    /\ \/ /\ pc' = "d"
          /\ UNCHANGED <<raisedAt, exc>>
       \/ \E cls \in ExceptionClasses :
            /\ pc' = "item_handler"
            /\ exc' = cls
            /\ raisedAt' = [raisedAt EXCEPT ![idx] = "c"]
    /\ UNCHANGED <<env, settings, locals, temperature_applied, calls,
                   prompt_template, dataset, counters, idx, item_locals,
                   verdict, rendered, sink>>

\* Step (d), line 117: predicted_answer = parse_llm_answer(filled_template).
ParseLlmAnswer ==
    /\ pc = "d"
    /\ \/ \E answer \in Answers :
            /\ predicted_answer' = answer
            /\ pc' = "e"
            /\ UNCHANGED <<raisedAt, exc>>
       \/ \E cls \in ExceptionClasses :
            /\ UNCHANGED predicted_answer
            /\ pc' = "item_handler"
            /\ exc' = cls
            /\ raisedAt' = [raisedAt EXCEPT ![idx] = "d"]
    /\ UNCHANGED <<env, settings, locals, temperature_applied, calls,
                   prompt_template, dataset, counters, idx, input_dict,
                   true_answer, is_correct, verdict, rendered, invoked, sink>>

\* Step (e), line 120: true_answer = parse_dataset_answer(item["solution"], ...).
ParseDatasetAnswer ==
    /\ pc = "e"
    /\ \/ \E answer \in Answers :
            /\ "solution" \in dataset[idx]
            /\ true_answer' = answer
            /\ pc' = "f"
            /\ UNCHANGED <<raisedAt, exc>>
       \/ \E cls \in ExceptionClasses :
            /\ UNCHANGED true_answer
            /\ pc' = "item_handler"
            /\ exc' = cls
            /\ raisedAt' = [raisedAt EXCEPT ![idx] = "e"]
    /\ UNCHANGED <<env, settings, locals, temperature_applied, calls,
                   prompt_template, dataset, counters, idx, input_dict,
                   predicted_answer, is_correct, verdict, rendered, invoked, sink>>

\* Step (f), line 123: is_correct = validate_response(...).
ValidateResponse ==
    /\ pc = "f"
    /\ \/ \E result \in BOOLEAN :
            /\ is_correct' = result
            /\ verdict' = [verdict EXCEPT ![idx] = IF result THEN "true" ELSE "false"]
            /\ pc' = "g"
            /\ UNCHANGED <<raisedAt, exc>>
       \/ \E cls \in ExceptionClasses :
            /\ UNCHANGED <<is_correct, verdict>>
            /\ pc' = "item_handler"
            /\ exc' = cls
            /\ raisedAt' = [raisedAt EXCEPT ![idx] = "f"]
    /\ UNCHANGED <<env, settings, locals, temperature_applied, calls,
                   prompt_template, dataset, counters, idx, input_dict,
                   predicted_answer, true_answer, rendered, invoked, sink>>

\* Step (g) deciding by the two parsed answers instead of is_correct.
CountByParsedAnswers ==
    /\ pc = "g"
    /\ IF predicted_answer = true_answer
       THEN /\ correct' = correct + 1
            /\ UNCHANGED wrong_question_numbers
       ELSE /\ wrong_question_numbers' = Append(wrong_question_numbers, idx)
            /\ UNCHANGED correct
    /\ pc' = "h"
    /\ UNCHANGED <<env, settings, exc, locals, temperature_applied, calls,
                   prompt_template, dataset, total, idx, item_locals, history, sink>>

\* Step (g), lines 124-127.
Count ==
    /\ pc = "g"
    /\ IF is_correct
       THEN /\ correct' = correct + 1
            /\ UNCHANGED wrong_question_numbers
       ELSE /\ wrong_question_numbers' = Append(wrong_question_numbers, idx)
            /\ UNCHANGED correct
    /\ pc' = "h"
    /\ UNCHANGED <<env, settings, exc, locals, temperature_applied, calls,
                   prompt_template, dataset, total, idx, item_locals, history, sink>>

\* Step (h), line 128: the outcome message interpolates predicted_answer and
\* true_answer; the loop goes on to the next item.
LogOutcome ==
    /\ pc = "h"
    /\ \/ /\ pc' = "loop"
          /\ input_dict' = {}
          /\ predicted_answer' = NoValue
          /\ true_answer' = NoValue
          /\ is_correct' = FALSE
          /\ UNCHANGED <<raisedAt, exc>>
       \/ \E cls \in ExceptionClasses :
            /\ pc' = "item_handler"
            /\ exc' = cls
            /\ raisedAt' = [raisedAt EXCEPT ![idx] = "h"]
            /\ UNCHANGED item_locals
    /\ UNCHANGED <<env, settings, locals, temperature_applied, calls,
                   prompt_template, dataset, counters, idx, verdict, rendered,
                   invoked, sink>>

\* Lines 130-132: except Exception inside the loop: log the error, continue.
\* An exception the clause does not catch goes on to the outer try, and so
\* does one raised by line 131 itself (str(e), the logger); the loop is left
\* then.  After the continue the locals of the item are dead (each is
\* assigned again before it is read), so they go back to their initial values.
ItemErrorHandler ==
    /\ pc = "item_handler"
    /\ IF Catches(exc)
       THEN \/ /\ error_log' = Append(error_log, [kind |-> "item", idx |-> idx])
               /\ exc' = NoValue
               /\ pc' = "loop"
               /\ input_dict' = {}
               /\ predicted_answer' = NoValue
               /\ true_answer' = NoValue
               /\ is_correct' = FALSE
            \/ \E cls \in ExceptionClasses :
                 /\ exc' = cls
                 /\ pc' = "top_handler"
                 /\ UNCHANGED <<error_log, item_locals>>
       ELSE /\ pc' = "top_handler"
            /\ UNCHANGED <<exc, error_log, item_locals>>
    /\ UNCHANGED <<env, settings, locals, temperature_applied, calls,
                   prompt_template, dataset, counters, idx, history,
                   report_lines, reports>>

RECURSIVE Gcd(_, _)
\* The greatest common divisor: correct / total in lowest terms.
Gcd(a, b) == IF b = 0 THEN a ELSE Gcd(b, a % b)

RECURSIVE OddPart(_)
\* n without its factors of two.
OddPart(n) == IF n % 2 = 0 THEN OddPart(n \div 2) ELSE n

\* Line 139: correct / total is a binary double without rounding exactly when
\* the denominator in lowest terms is a power of two (the numerators here are
\* far below 2^53).
IsExactDouble(c, t) == OddPart(t \div Gcd(c, t)) = 1

RECURSIVE BinaryShift(_, _, _)
\* The least n >= 1 with c * 2^n >= t, called with x = 2c and n = 1: the
\* double nearest to c / t (0 < c < t) is m / 2^(52+n) with 2^52 <= m <= 2^53.
BinaryShift(x, t, n) == IF x >= t THEN n ELSE BinaryShift(2 * x, t, n + 1)

RECURSIVE TimesPowerOfTwo(_, _)
\* x * 2^n.
TimesPowerOfTwo(x, n) == IF n = 0 THEN x ELSE TimesPowerOfTwo(2 * x, n - 1)

RECURSIVE TimesPowerOfTwoMod(_, _, _)
\* (w * 2^e) % mod, doubling step by step to stay within the integers at hand.
TimesPowerOfTwoMod(w, e, mod) ==
    IF e = 0 THEN w % mod ELSE TimesPowerOfTwoMod((2 * w) % mod, e - 1, mod)

\* Line 139 on a tie of the exact quotient (correct * 10000 / total ends in
\* one half) when correct / total is no double.  The division rounds to the
\* double m / 2^e, e = 52 + n; d1 is m * t - c * 2^e, the error of the division
\* in units of 1 / (t * 2^e).  The multiplication by 100 rounds 100 * m to a
\* multiple of the spacing G of the doubles there (64 below 2^59, else 128),
\* half to even; rho is that error in the same units over t.  The format then
\* rounds the double it is given, which lies above the tie (s > 0), below it
\* (s < 0) or on it.
PercentOfInexactTie(c, t) ==
    LET q == (c * 10000) \div t
        n == BinaryShift(2 * c, t, 1)
        W == TimesPowerOfTwoMod(c, 52 + n, 256 * t)
        R == W % t
        lo == W \div t
        up == 2 * R >= t
        m256 == IF up THEN (lo + 1) % 256 ELSE lo % 256
        d1 == IF up THEN t - R ELSE 0 - R
        lhs == 25 * TimesPowerOfTwo(c, n)
        rhs == 32 * t
        G == IF lhs < rhs \/ (lhs = rhs /\ d1 < 0) THEN 64 ELSE 128
        P == (100 * m256) % (2 * G)
        L == P % G
        rho == IF 2 * L < G THEN 0 - L
               ELSE IF 2 * L > G THEN G - L
               ELSE IF P < G THEN 0 - L ELSE G - L
        s == rho * t + 100 * d1
    IN IF s > 0 THEN q + 1
       ELSE IF s < 0 THEN q
       ELSE q + (q % 2)

\* Line 139 with a fraction formatted where the percentage belongs: the
\* quotient is not scaled by 100.
PercentUnscaled(c, t) == (c * 100) \div t

\* Line 139: f"{correct / total:.2%}", in hundredths of a percent.  The format
\* rounds the double (correct / total) * 100 to two decimals, half to even.
\* Off a tie of the exact quotient the double rounds as the quotient does; on
\* a tie it does when correct / total is a double, and else the rounding
\* errors of the division and of the multiplication decide.
Percent(c, t) ==
    LET q == (c * 10000) \div t
        r == (c * 10000) % t
    IN IF 2 * r > t THEN q + 1
       ELSE IF 2 * r < t THEN q
       ELSE IF IsExactDouble(c, t) THEN q + (q % 2)
       ELSE PercentOfInexactTie(c, t)

\* Lines 138-141: the accuracy line of the report.
Accuracy(c, t) ==
    IF t > 0 THEN [defined |-> TRUE, hundredths |-> Percent(c, t)]
    ELSE [defined |-> FALSE, hundredths |-> 0]

\* The log lines of the report: 135 (header), 136 (total), 137 (correct),
\* 139 or 141 (accuracy), 142 (wrong question numbers).
ReportLength == 5

\* Lines 134-142: the test report.  Each of its lines is a logger call that
\* may raise; the lines before it are logged then, and the report is not
\* complete.
TestReport ==
    /\ pc = "report"
    /\ \/ /\ report_lines' = ReportLength
          /\ reports' = Append(reports, [total |-> total,
                                         correct |-> correct,
                                         accuracy |-> Accuracy(correct, total),
                                         wrong |-> wrong_question_numbers])
          /\ pc' = "returned"
          /\ UNCHANGED exc
       \/ \E k \in 0..(ReportLength - 1), cls \in ExceptionClasses :
            /\ report_lines' = k
            /\ UNCHANGED reports
            /\ exc' = cls
            /\ pc' = "top_handler"
    /\ UNCHANGED <<env, settings, locals, temperature_applied, calls,
                   prompt_template, dataset, counters, idx, item_locals,
                   history, error_log>>

\* Lines 143-144: the outer except Exception logs and run() returns.  An
\* exception the clause does not catch leaves run(), and so does one raised
\* by line 144 itself (str(e), the logger).
TopErrorHandler ==
    /\ pc = "top_handler"
    /\ IF Catches(exc)
       THEN \/ /\ error_log' = Append(error_log, [kind |-> "run", idx |-> 0])
               /\ exc' = NoValue
               /\ pc' = "returned"
            \/ \E cls \in ExceptionClasses :
                 /\ exc' = cls
                 /\ pc' = "raised"
                 /\ UNCHANGED error_log
       ELSE /\ pc' = "raised"
            /\ UNCHANGED <<exc, error_log>>
    /\ UNCHANGED <<env, settings, locals, temperature_applied, calls,
                   prompt_template, dataset, counters, idx, item_locals,
                   history, report_lines, reports>>

Next ==
    \/ Construct
    \/ ReadSettings
    \/ SetTemperature
    \/ InitializeLlm
    \/ GetPromptTemplate
    \/ ComposeChain
    \/ LoadDataset
    \/ LoadErrorHandler
    \/ CheckEmpty
    \/ NextItem
    \/ BuildInputDict
    \/ FormatMessages
    \/ Invoke
    \/ ParseLlmAnswer
    \/ ParseDatasetAnswer
    \/ ValidateResponse
    \/ Count
    \/ LogOutcome
    \/ ItemErrorHandler
    \/ TestReport
    \/ TopErrorHandler

Spec == Init /\ [][Next]_vars

\* run() is sequential code: a step whose collaborator call has returned or
\* raised is followed by the next step.
FairSpec == Init /\ [][Next]_vars /\ WF_vars(Next)

(***************************************************************************)
(* Observations on a run, used by the properties below.                    *)
(***************************************************************************)
Items == DOMAIN raisedAt
RaisedItems == {i \in Items : raisedAt[i] # "none"}
RaisedBeforeCount == {i \in Items : raisedAt[i] \in {"a", "b", "c", "d", "e", "f"}}
RaisedInCallParseValidate == {i \in Items : raisedAt[i] \in {"c", "d", "e", "f"}}
ValidatedTrue == {i \in Items : verdict[i] = "true"}
ValidatedFalse == {i \in Items : verdict[i] = "false"}
Range(s) == {s[k] : k \in DOMAIN s}
StrictlyIncreasing(s) == \A j, k \in DOMAIN s : j < k => s[j] < s[k]
Reported == Len(reports) > 0
Called(name) == \E k \in DOMAIN calls : calls[k].call = name
Outcome(name, o) ==
    \E k \in DOMAIN calls : calls[k].call = name /\ calls[k].outcome = o
\* run() is over: it returned or an exception left it.
Ended == pc \in {"returned", "raised"}

\* C1: for a dataset of N >= 1 items whose processing has begun and in which
\* the items that raise do so in the model call, in answer parsing or in
\* validation, K being their number, run() emits a report whose total is N and whose correct count plus the
\* length of wrong_indices is N - K.
C1_ReportAccountsForRaisedItems ==
    (/\ Ended
     /\ Len(dataset) >= 1
     /\ idx >= 1
     /\ RaisedItems = RaisedInCallParseValidate)
    => /\ Len(reports) = 1
       /\ reports[1].total = Len(dataset)
       /\ reports[1].correct + Len(reports[1].wrong)
            = Len(dataset) - Cardinality(RaisedInCallParseValidate)

\* C2: in every emitted report wrong_indices is strictly increasing, its
\* elements are exactly the 1-based positions of the items the validator
\* judged false, and it holds no position of an item whose processing raised
\* and none of an item validated true.
C2_WrongIndicesExcludeRaised ==
    Reported =>
        /\ StrictlyIncreasing(reports[1].wrong)
        /\ Range(reports[1].wrong) = ValidatedFalse
        /\ Range(reports[1].wrong) \cap RaisedItems = {}
        /\ Range(reports[1].wrong) \cap ValidatedTrue = {}

\* C3: when the processing of an item raises at any step (a)-(h), the error
\* is caught and logged for that item, every later item of the dataset is
\* still processed to an outcome, the report is emitted, and every item
\* contributes to the counters what its own validation decided, whatever
\* failed elsewhere.
C3_FailureIsolation ==
    (Ended /\ RaisedItems # {}) =>
        /\ pc = "returned"
        /\ Len(reports) = 1
        /\ idx = Len(dataset)
        /\ \A i \in Items : raisedAt[i] # "none" \/ verdict[i] # "none"
        /\ Len(error_log) = Cardinality(RaisedItems)
        /\ \A k \in DOMAIN error_log :
             error_log[k].kind = "item" /\ error_log[k].idx \in RaisedItems
        /\ StrictlyIncreasing([k \in DOMAIN error_log |-> error_log[k].idx])
        /\ reports[1].correct = Cardinality(ValidatedTrue)
        /\ Len(reports[1].wrong) = Cardinality(ValidatedFalse)

\* C4: an item whose processing raised at any of the steps (a)-(h), step (h)
\* included, counts toward neither the correct counter nor wrong_indices of
\* the final report.
C4_RaisedItemsUncounted ==
    Reported =>
        /\ Range(reports[1].wrong) \cap RaisedItems = {}
        /\ reports[1].correct = Cardinality(ValidatedTrue \ RaisedItems)
        /\ Len(reports[1].wrong) = Cardinality(ValidatedFalse \ RaisedItems)

\* C5: run() never lets an exception escape to its caller, whatever state it
\* is called in and whichever collaborator fails.
C5_RunNeverRaises == pc # "raised"

\* C6: when the Prompt Factory returns None, run() returns without a call of
\* the Dataset Loader, without a pipeline invocation, without a report and
\* without an error record.
C6_NoTemplateEndsSilently ==
    Outcome("get_prompt_template", "None") =>
        /\ pc = "returned"
        /\ exc = NoValue
        /\ ~Called("load_dataset")
        /\ rendered = <<>>
        /\ invoked = <<>>
        /\ reports = <<>>
        /\ report_lines = 0
        /\ error_log = <<>>

C6_Witness ==
    /\ pc = "returned"
    /\ prompt_template = "None"
    /\ Outcome("get_prompt_template", "None")
    /\ Outcome("initialize_llm", "return")

\* C7: when the Dataset Loader raises, run() logs an error record and ends
\* by returning: no item is processed, the pipeline is never invoked, the
\* counters are never computed and no report is emitted.
C7_LoadFailureEndsRun ==
    Outcome("load_dataset", "raise") =>
        /\ pc \in {"load_handler", "top_handler", "returned"}
        /\ pc = "returned" => Len(error_log) = 1
        /\ idx = 0
        /\ rendered = <<>>
        /\ invoked = <<>>
        /\ total = 0 /\ correct = 0 /\ wrong_question_numbers = <<>>
        /\ reports = <<>>
        /\ report_lines = 0

\* C8: when the Dataset Loader returns a dataset of zero items, run() logs
\* an error record and returns without a pipeline invocation and without any
\* line of the report.
C8_EmptyDatasetEndsRun ==
    (Outcome("load_dataset", "return") /\ Len(dataset) = 0) =>
        /\ pc \in {"check_empty", "load_handler", "top_handler", "returned"}
        /\ pc = "returned" => Len(error_log) = 1
        /\ rendered = <<>>
        /\ invoked = <<>>
        /\ reports = <<>>
        /\ report_lines = 0

\* The keys of an input record as the method and the dataset type require.
ExactInputRecord(keys) ==
    /\ "problem" \in keys
    /\ "betti_number" \in keys <=> method = "sot"
    /\ "options" \in keys <=> dataset_type = "aqua"
    /\ keys \subseteq {"problem", "betti_number", "options"}

\* C9: the record handed to the diagnostic rendering and to the pipeline has
\* the key problem always, the key betti_number if and only if the method is
\* sot, the key options if and only if the dataset type is aqua, and no other
\* key; the pipeline gets the record the rendering got.
C9_InputRecordKeys ==
    /\ \A k \in DOMAIN rendered : ExactInputRecord(rendered[k].keys)
    /\ \A k \in DOMAIN invoked :
         /\ ExactInputRecord(invoked[k].keys)
         /\ \E j \in DOMAIN rendered : rendered[j] = invoked[k]

\* Method diy on an aqua dataset: the pipeline got exactly {problem, options}.
C9_Witness ==
    /\ method = "diy"
    /\ dataset_type = "aqua"
    /\ Len(invoked) >= 2
    /\ \A k \in DOMAIN invoked : invoked[k].keys = {"problem", "options"}

\* C10: whenever the accuracy is computed (the report has come to its
\* accuracy line), total is the dataset length and is at least 1 and
\* 0 <= correct <= total, so the N/A branch is never taken; the accuracy
\* reported is correct/total to the nearest hundredth of a percent.
C10_AccuracyDefined ==
    /\ (pc = "report" \/ report_lines > 0) =>
         /\ total = Len(dataset)
         /\ total >= 1
         /\ 0 <= correct /\ correct <= total
         /\ Accuracy(correct, total).defined
    /\ Reported =>
         LET r == reports[1]
             d == r.accuracy.hundredths * r.total - r.correct * 10000
         IN /\ r.total = Len(dataset)
            /\ r.total >= 1
            /\ 0 <= r.correct /\ r.correct <= r.total
            /\ r.accuracy.defined
            /\ 2 * d <= r.total /\ -2 * d <= r.total

\* One of two items correct: 50.00%.
C10_Witness ==
    /\ Reported
    /\ report_lines = ReportLength
    /\ reports[1].total = 2
    /\ reports[1].correct = 1
    /\ reports[1].accuracy = [defined |-> TRUE, hundredths |-> 5000]

\* C11: construction with discriminator diy binds the diy settings and with
\* sot the sot settings; with any other value the settings field stays unset,
\* and a run() attempted in that state makes no collaborator call (no
\* temperature change, no model initialization, no template request, no
\* dataset load) and emits no report.
C11_SettingsResolution ==
    pc # "new" =>
        /\ args_prompt_type = "diy" => settings = "diy_settings"
        /\ args_prompt_type = "sot" => settings = "sot_settings"
        /\ args_prompt_type \notin {"diy", "sot"} =>
             /\ settings = NoValue
             /\ pc \in {"constructed", "raised"}
             /\ calls = <<>>
             /\ temperature_applied = 0
             /\ method = NoValue /\ dataset_type = NoValue
             /\ rendered = <<>> /\ invoked = <<>>
             /\ reports = <<>> /\ report_lines = 0

\* run() was attempted on a Runner constructed with an unrecognized
\* discriminator.
C11_Witness ==
    /\ args_prompt_type = "cot"
    /\ settings = NoValue
    /\ pc = "raised"
    /\ calls = <<>>

\* The collaborator calls of the prelude, in the order of the source.
PreludeOrder ==
    <<"set_temperature", "initialize_llm", "get_prompt_template", "load_dataset">>
CallNames == [k \in DOMAIN calls |-> calls[k].call]
IsPrefix(s, t) == Len(s) <= Len(t) /\ \A k \in DOMAIN s : s[k] = t[k]
Finished(i) == raisedAt[i] # "none" \/ verdict[i] # "none"
Untouched(i) == raisedAt[i] = "none" /\ verdict[i] = "none"

C12_Order ==
    /\ IsPrefix(CallNames, PreludeOrder)
    /\ temperature_applied <= 1
    /\ (Called("initialize_llm") \/ rendered # <<>> \/ invoked # <<>>)
         => temperature_applied = 1
    /\ idx > 0 => Outcome("load_dataset", "return") /\ idx <= Len(dataset)
    /\ \A i \in Items : /\ i < idx => Finished(i)
                        /\ i > idx => Untouched(i)
    /\ StrictlyIncreasing([k \in DOMAIN rendered |-> rendered[k].idx])
    /\ StrictlyIncreasing([k \in DOMAIN invoked |-> invoked[k].idx])
    /\ Len(reports) <= 1
    /\ (Reported \/ report_lines > 0) =>
         /\ pc \in {"returned", "top_handler", "raised"}
         /\ idx = Len(dataset)
         /\ \A i \in Items : Finished(i)

C12_Step ==
    /\ idx' = idx \/ (idx' = idx + 1 /\ pc = "loop")
    /\ temperature_applied' # temperature_applied
         => pc = "set_temperature" /\ calls = <<>>
    /\ (reports' # reports \/ report_lines' # report_lines)
         => pc = "report" /\ idx = Len(dataset) /\ report_lines = 0

\* C12: in every run() the collaborator calls are, in this order and each at
\* most once, apply temperature, initialize the model client, request the
\* template, load the dataset; then the items are processed in dataset order
\* with indices 1..N, each once, the next one only after the one before has
\* finished; then the report is emitted at most once, after the last item.
\* The temperature is applied before the model client exists and before any
\* pipeline invocation, and never again.
C12_CallAndItemOrder == []C12_Order /\ [][C12_Step]_vars

\* A run over two items that invoked the pipeline for both and reported.
C12_Witness ==
    /\ pc = "returned"
    /\ CallNames = PreludeOrder
    /\ temperature_applied = 1
    /\ Len(dataset) = 2
    /\ Len(invoked) = 2
    /\ Reported

\* C13: when the initialization of the model client raises, the top-level
\* handler logs one error record and run() returns; no template is requested,
\* the Dataset Loader is not called, no item is processed, no report is
\* emitted, and the temperature applied before stays applied.
C13_InitFailureReachesTopHandler ==
    Outcome("initialize_llm", "raise") =>
        /\ pc \in {"top_handler", "returned"}
        /\ pc = "top_handler" => error_log = <<>>
        /\ pc = "returned" => error_log = <<[kind |-> "run", idx |-> 0]>>
        /\ ~Called("get_prompt_template")
        /\ ~Called("load_dataset")
        /\ prompt_template = NoValue
        /\ idx = 0
        /\ rendered = <<>> /\ invoked = <<>>
        /\ reports = <<>> /\ report_lines = 0
        /\ temperature_applied = 1

\* The items whose step (g) has run.
Counted == {i \in Items : i < idx \/ (i = idx /\ pc # "g")}

\* C14: the correctness decision depends only on the validator: an item is
\* added to correct exactly when validate_response returned true for it and
\* to wrong_indices exactly when it returned false, whatever parse_llm_answer
\* and parse_dataset_answer returned; so the report (total, correct,
\* wrong_indices) is determined by the dataset length and the validator's
\* results, and two runs that differ only in the parsed answers report alike.
C14_ValidatorAloneDecides ==
    /\ correct = Cardinality(ValidatedTrue \cap Counted)
    /\ Range(wrong_question_numbers) = ValidatedFalse \cap Counted
    /\ StrictlyIncreasing(wrong_question_numbers)
    /\ Reported =>
         /\ reports[1].total = Len(dataset)
         /\ reports[1].correct = Cardinality(ValidatedTrue)
         /\ Range(reports[1].wrong) = ValidatedFalse
         /\ StrictlyIncreasing(reports[1].wrong)

\* The parsed answers differ, the validator said true, and the item was
\* counted as correct.
C14_Witness ==
    /\ pc = "h"
    /\ predicted_answer = "A"
    /\ true_answer = "B"
    /\ verdict[idx] = "true"
    /\ correct = 1
    /\ wrong_question_numbers = <<>>

\* C15: when the settings carry a method that is neither sot nor diy, the
\* factory still returns a template and the dataset has N >= 1 items whose
\* processing has begun, run() does not abort: every item raises in step (a)
\* and is skipped, the pipeline is never invoked, and the report has total N,
\* correct 0 and no wrong index.
C15_UnknownMethodSkipsEveryItem ==
    (method # NoValue /\ method \notin {"sot", "diy"}) =>
        /\ rendered = <<>> /\ invoked = <<>>
        /\ correct = 0 /\ wrong_question_numbers = <<>>
        /\ \A i \in Items : raisedAt[i] \in {"none", "a"} /\ verdict[i] = "none"
        /\ pc \notin {"b", "c", "d", "e", "f", "g", "h"}
        /\ (Ended /\ Len(dataset) >= 1 /\ idx >= 1) =>
             /\ pc = "returned"
             /\ \A i \in Items : raisedAt[i] = "a"
             /\ error_log = [k \in 1..Len(dataset) |-> [kind |-> "item", idx |-> k]]
             /\ reports = <<[total |-> Len(dataset),
                             correct |-> 0,
                             accuracy |-> [defined |-> TRUE, hundredths |-> 0],
                             wrong |-> <<>>]>>

\* C16: for every item the pipeline is invoked at most once, and only after
\* the input record was built and its rendering succeeded; when either of
\* them raises the model is not called for the item; a failed item is never
\* tried again, so a run over N items makes at most N model calls.
C16_AtMostOneModelCallPerItem ==
    /\ Len(invoked) <= Len(dataset)
    /\ Len(rendered) <= Len(dataset)
    /\ StrictlyIncreasing([k \in DOMAIN invoked |-> invoked[k].idx])
    /\ StrictlyIncreasing([k \in DOMAIN rendered |-> rendered[k].idx])
    /\ \A k \in DOMAIN invoked :
         /\ invoked[k].idx \in 1..idx
         /\ raisedAt[invoked[k].idx] \notin {"a", "b"}
         /\ \E j \in DOMAIN rendered : rendered[j].idx = invoked[k].idx
    /\ \A i \in Items :
         raisedAt[i] \in {"a", "b"} => \A k \in DOMAIN invoked : invoked[k].idx # i
    /\ \A i \in Items :
         raisedAt[i] = "a" => \A k \in DOMAIN rendered : rendered[k].idx # i

\* Item 1 failed while its prompt was rendered and got no model call; item 2
\* got one.
C16_Witness ==
    /\ pc = "returned"
    /\ Len(dataset) = 2
    /\ raisedAt[1] = "b"
    /\ Len(rendered) = 2
    /\ Len(invoked) = 1
    /\ invoked[1].idx = 2

\* The three ways a run ends by returning.
SilentShortCircuit ==
    /\ Outcome("get_prompt_template", "None")
    /\ error_log = <<>>
    /\ reports = <<>> /\ report_lines = 0
ErrorWithoutReport ==
    /\ reports = <<>> /\ report_lines = 0
    /\ error_log # <<>>
    /\ error_log[Len(error_log)].kind \in {"run", "load", "empty"}
ReportEmitted ==
    /\ Len(reports) = 1
    /\ Len(dataset) >= 1
    /\ idx = Len(dataset)
    /\ \A k \in DOMAIN error_log : error_log[k].kind = "item"
ExactlyOneEnding ==
    \/ SilentShortCircuit /\ ~ErrorWithoutReport /\ ~ReportEmitted
    \/ ~SilentShortCircuit /\ ErrorWithoutReport /\ ~ReportEmitted
    \/ ~SilentShortCircuit /\ ~ErrorWithoutReport /\ ReportEmitted
ItemErrorRecords == {k \in DOMAIN error_log : error_log[k].kind = "item"}

\* C17: a run() whose collaborator calls all return or raise, over a finite
\* dataset, terminates: whatever the template, the loader, the dataset length
\* N and the items do, it returns after at most N item iterations, and on
\* return exactly one holds of: silent short-circuit, error logged without a
\* report, report emitted.
C17_Terminates ==
    /\ (pc = "set_temperature") ~> (pc = "returned")
    /\ [](pc = "returned" => ExactlyOneEnding)
    /\ [](idx <= Len(dataset) /\ Cardinality(ItemErrorRecords) <= idx)
====
